---- MODULE Spec2Model ----
(***************************************************************************)
(* Model of squeez (src/squeez/src/squeez.py): every immediate subfolder   *)
(* of a target directory is written to <name>.zip, the archive is verified *)
(* and the subfolder is then removed.                                      *)
(*                                                                         *)
(* Paths and archive entry names are strings, modelled as sequences of     *)
(* tokens in which "/" is the separator token, so that os.path.join,       *)
(* os.path.relpath and str.endswith('/') are computed rather than assumed. *)
(* A folder's content is a tree: the set of its directories and the set of *)
(* its files, each a sequence of path components relative to the folder.   *)
(* I/O failures (write, read, remove, rmtree) are nondeterministic choices *)
(* of the environment.                                                     *)
(***************************************************************************)
EXTENDS FiniteSets, Integers, Naturals, Sequences, TLC

VARIABLES
    target,         \* what target_dir is on disk: "dir", "file" or "absent"
    folder,         \* folder[n]: tree of subfolder n of the target, or NoFolder
    zip,            \* zip[n]: archive file <n>.zip of the target, or NoFile
    min_count,      \* argument of squeez_subfolders
    dry_run,        \* argument of squeez_subfolders
    pc,             \* position in squeez_subfolders
    run,            \* number of calls of squeez_subfolders started so far
    subfolders,     \* the listing taken at line 166
    idx,            \* loop index of line 185 (1-based)
    success_count,  \* line 182
    fail_count,     \* line 183
    zip_ok,         \* value returned by zip_folder at line 209
    zip_msg,        \* what zip_folder printed for the current folder
    report,         \* report[n]: the per-folder status squeez_subfolders printed
    processed,      \* history: folders whose loop iteration has finished, in order
    verified,       \* history: folders whose archive verify_zip_integrity accepted in this run
    io_error,       \* history: an I/O failure happened in this run
    folder0,        \* history: folder at the start of the current run
    zip0,           \* history: zip at the start of the current run
    probe           \* a direct call of verify_zip_integrity: its arguments and result

vars == <<target, folder, zip, min_count, dry_run, pc, run, subfolders, idx,
          success_count, fail_count, zip_ok, zip_msg, report, processed,
          verified, io_error, folder0, zip0, probe>>

----------------------------------------------------------------------------
(* Bounds *)

MaxRuns == 2
MaxMinCount == 2
MaxEntries == 3

----------------------------------------------------------------------------
(* The file system *)

Names == {"A", "B", "C"}

\* a subfolder that is not on disk, an archive file that is not on disk
NoFolder == [exists |-> FALSE, dirs |-> {}, files |-> {}]
NoFile == [exists |-> FALSE, names |-> <<>>, corrupt |-> {}]

\* Python's None, as the result of ZipFile.testzip()
None == <<>>

Sep == "/"

EmptyTree == [exists |-> TRUE, dirs |-> {}, files |-> {}]
DirsOnly == [exists |-> TRUE, dirs |-> {<<"d">>}, files |-> {}]
Flat3 == [exists |-> TRUE, dirs |-> {}, files |-> {<<"f1">>, <<"f2">>, <<"f3">>}]
Nested == [exists |-> TRUE, dirs |-> {<<"d">>}, files |-> {<<"f1">>, <<"d", "f2">>}]
WithEmptyDir == [exists |-> TRUE, dirs |-> {<<"d">>}, files |-> {<<"f1">>}]

\* the contents each subfolder is drawn from: the code treats all names
\* alike, so which name holds which tree is fixed
Trees == [A |-> {Flat3}, B |-> {EmptyTree, DirsOnly}, C |-> {Nested, WithEmptyDir}]

\* An archive some other program left at <name>.zip
ForeignArchive == [exists |-> TRUE, names |-> << <<"x">> >>, corrupt |-> {}]

target_dir == <<"D">>

----------------------------------------------------------------------------
(* Strings and paths *)

\* os.path.join(a, name)
PathJoin(a, name) == a \o <<Sep, name>>

\* os.path.relpath(path, start) for a path below start
RelPath(path, start) == SubSeq(path, Len(start) + 2, Len(path))

\* str.endswith('/')
EndsWithSep(s) == Len(s) > 0 /\ s[Len(s)] = Sep

\* target_dir / name
FolderPath(n) == PathJoin(target_dir, n)

\* folder_path.parent
Parent(path) == SubSeq(path, 1, Len(path) - 2)

RECURSIVE SeqOf(_)
\* the order in which a directory listing yields the members of S
SeqOf(S) == IF S = {} THEN <<>>
            ELSE LET x == CHOOSE y \in S : TRUE IN <<x>> \o SeqOf(S \ {x})

RECURSIVE Flatten(_)
Flatten(ss) == IF ss = <<>> THEN <<>> ELSE Head(ss) \o Flatten(Tail(ss))

IsChild(p, d) == Len(p) = Len(d) + 1 /\ SubSeq(p, 1, Len(d)) = d

RECURSIVE Walk(_, _, _)
\* os.walk(top): top-down, one (root, files) per directory; root is the
\* path string of the directory, d its components relative to top
Walk(tree, root, d) ==
    LET files == SeqOf({p[Len(p)] : p \in {q \in tree.files : IsChild(q, d)}})
        subs == SeqOf({p \in tree.dirs : IsChild(p, d)})
    IN  << [root |-> root, files |-> files] >>
        \o Flatten([i \in 1..Len(subs) |->
                      Walk(tree, PathJoin(root, subs[i][Len(subs[i])]), subs[i])])

RECURSIVE SumLen(_)
SumLen(w) == IF w = <<>> THEN 0 ELSE Len(Head(w).files) + SumLen(Tail(w))

\* every content a subfolder can have in this model
TreeSpace ==
    [exists : {TRUE}, dirs : SUBSET {<<"d">>},
     files : SUBSET {<<"f1">>, <<"f2">>, <<"f3">>, <<"d", "f2">>}]

\* os.walk(folder_path) for folder n with content t, computed once per
\* content (the merge with the empty function makes TLC tabulate it)
os_walk == [x \in Names \X TreeSpace |-> Walk(x[2], FolderPath(x[1]), <<>>)] @@ <<>>

count_files_in_folder(n, tree) == SumLen(os_walk[<<n, tree>>])

----------------------------------------------------------------------------
(* verify_zip_integrity and zip_folder *)

\* ZipFile.testzip(): the name of the first corrupt entry, or None
testzip(a) ==
    IF a.corrupt = {} THEN None
    ELSE a.names[CHOOSE i \in a.corrupt : \A j \in a.corrupt : i <= j]

\* faulty variant of zip_file_count: directory markers are counted too
zip_file_count_all(a) == Len(a.names)

\* line 54: len([name for name in zipf.namelist() if not name.endswith('/')])
zip_file_count(a) == Len(SelectSeq(a.names, LAMBDA s : ~EndsWithSep(s)))

\* faulty variant of verify_zip_integrity: the entry count is not compared
verify_without_count(a, expected_file_count, readable) ==
    IF ~a.exists \/ ~readable THEN FALSE
    ELSE IF testzip(a) # None THEN FALSE
    ELSE TRUE

\* verify_zip_integrity(zip_path, expected_file_count, _); readable is whether
\* the archive can be opened and read (any exception gives False, line 60)
verify_zip_integrity(a, expected_file_count, readable) ==
    IF ~a.exists \/ ~readable THEN FALSE
    ELSE IF testzip(a) # None THEN FALSE
    ELSE IF zip_file_count(a) # expected_file_count THEN FALSE
    ELSE TRUE

\* faulty variant of ArcName: the name is taken relative to the folder itself
ArcNameInFolder(root, file, folder_path) ==
    RelPath(PathJoin(root, file), folder_path)

\* lines 88-90: the entry name of one file
ArcName(root, file, folder_path) ==
    RelPath(PathJoin(root, file), Parent(folder_path))

\* lines 85-91: the entry names zipf.write is called with, in order
EntryNames(n, tree) ==
    LET w == os_walk[<<n, tree>>]
    IN  Flatten([i \in 1..Len(w) |->
                   [j \in 1..Len(w[i].files) |->
                      ArcName(w[i].root, w[i].files[j], FolderPath(n))]])

\* the archive after the first k entries were written
Written(n, tree, k) ==
    [exists |-> TRUE, names |-> SubSeq(EntryNames(n, tree), 1, k), corrupt |-> {}]

----------------------------------------------------------------------------
(* squeez_subfolders *)

NoProbe == [arch |-> NoFile, expected |-> 0, readable |-> TRUE,
            result |-> FALSE, called |-> FALSE]

NoReport == [n \in Names |-> "none"]

\* the orders in which directory.iterdir() can yield the members of S
Listings(S) ==
    {s \in [1..Cardinality(S) -> S] : \A i, j \in 1..Cardinality(S) : s[i] = s[j] => i = j}

\* get_subfolders(directory)
get_subfolders == {n \in Names : folder[n].exists}

Init ==
    /\ target \in {"dir", "file", "absent"}
    /\ folder \in [Names -> UNION {Trees[n] : n \in Names} \cup {NoFolder}]
    /\ \A n \in Names : folder[n] \in Trees[n] \cup {NoFolder}
    /\ zip \in [Names -> {NoFile, ForeignArchive}]
    /\ target # "dir" => (\A n \in Names : folder[n] = NoFolder /\ zip[n] = NoFile)
    /\ min_count \in 1..MaxMinCount
    /\ dry_run \in BOOLEAN
    /\ pc = "idle"
    /\ run = 0
    /\ subfolders = <<>>
    /\ idx = 1
    /\ success_count = 0
    /\ fail_count = 0
    /\ zip_ok = FALSE
    /\ zip_msg = "none"
    /\ report = NoReport
    /\ processed = <<>>
    /\ verified = {}
    /\ io_error = FALSE
    /\ folder0 = folder
    /\ zip0 = zip
    /\ probe = NoProbe

\* a call of squeez_subfolders begins: the history variables are reset
Enter ==
    /\ pc \in {"idle", "returned", "done"}
    /\ run < MaxRuns
    /\ run' = run + 1
    /\ idx' = 1
    /\ success_count' = 0
    /\ fail_count' = 0
    /\ zip_ok' = FALSE
    /\ zip_msg' = "none"
    /\ report' = NoReport
    /\ processed' = <<>>
    /\ verified' = {}
    /\ io_error' = FALSE
    /\ folder0' = folder
    /\ zip0' = zip
    /\ UNCHANGED <<target, folder, zip, min_count, dry_run, probe>>

\* lines 158-164: the target does not exist or is not a directory
StartNoDirectory ==
    /\ Enter
    /\ target # "dir"
    /\ subfolders' = <<>>
    /\ pc' = "returned"

\* lines 166-170: no subfolder
StartNoSubfolders ==
    /\ Enter
    /\ target = "dir"
    /\ Cardinality(get_subfolders) = 0
    /\ subfolders' = <<>>
    /\ pc' = "returned"

\* faulty variant of StartBelowMinCount: the loop is entered all the same
StartBelowMinCountLoops ==
    /\ Enter
    /\ target = "dir"
    /\ Cardinality(get_subfolders) # 0
    /\ Cardinality(get_subfolders) < min_count
    /\ \E s \in Listings(get_subfolders) : subfolders' = s
    /\ pc' = "loop"

\* lines 172-174: fewer subfolders than min_count
StartBelowMinCount ==
    /\ Enter
    /\ target = "dir"
    /\ Cardinality(get_subfolders) # 0
    /\ Cardinality(get_subfolders) < min_count
    /\ \E s \in Listings(get_subfolders) : subfolders' = s
    /\ pc' = "returned"

\* lines 166-183: the loop is entered
StartLoop ==
    /\ Enter
    /\ target = "dir"
    /\ Cardinality(get_subfolders) # 0
    /\ ~(Cardinality(get_subfolders) < min_count)
    /\ \E s \in Listings(get_subfolders) : subfolders' = s
    /\ pc' = "loop"

InLoop == pc = "loop" /\ idx <= Len(subfolders)

Cur == subfolders[idx]

\* the end of one loop iteration with the status printed for the folder
Continue(status) ==
    /\ report' = [report EXCEPT ![Cur] = status]
    /\ processed' = Append(processed, Cur)
    /\ idx' = idx + 1
    /\ pc' = "loop"

\* faulty variant of SkipExisting: the existing archive is overwritten and
\* the folder removed
SkipExistingOverwrites ==
    /\ InLoop
    /\ zip[Cur].exists
    /\ zip' = [zip EXCEPT ![Cur] =
                  Written(Cur, folder[Cur], count_files_in_folder(Cur, folder[Cur]))]
    /\ folder' = [folder EXCEPT ![Cur] = NoFolder]
    /\ Continue("skipped")
    /\ UNCHANGED <<target, min_count, dry_run, run, subfolders,
                   success_count, fail_count, zip_ok, zip_msg, verified,
                   io_error, folder0, zip0, probe>>

\* lines 192-194: the archive name is taken
SkipExisting ==
    /\ InLoop
    /\ zip[Cur].exists
    /\ Continue("skipped")
    /\ UNCHANGED <<target, folder, zip, min_count, dry_run, run, subfolders,
                   success_count, fail_count, zip_ok, zip_msg, verified,
                   io_error, folder0, zip0, probe>>

\* faulty variant of DryRunStep: the archive is written
DryRunStepWrites ==
    /\ InLoop
    /\ ~zip[Cur].exists
    /\ dry_run
    /\ zip' = [zip EXCEPT ![Cur] =
                  Written(Cur, folder[Cur], count_files_in_folder(Cur, folder[Cur]))]
    /\ success_count' = success_count + 1
    /\ Continue("simulated")
    /\ UNCHANGED <<target, folder, min_count, dry_run, run, subfolders,
                   fail_count, zip_ok, zip_msg, verified, io_error, folder0,
                   zip0, probe>>

\* lines 196-201
DryRunStep ==
    /\ InLoop
    /\ ~zip[Cur].exists
    /\ dry_run
    /\ success_count' = success_count + 1
    /\ Continue("simulated")
    /\ UNCHANGED <<target, folder, zip, min_count, dry_run, run, subfolders,
                   fail_count, zip_ok, zip_msg, verified, io_error, folder0,
                   zip0, probe>>

\* line 209 is reached: zip_folder(folder, zip_path) is called
CallsZipFolder == InLoop /\ ~zip[Cur].exists /\ ~dry_run

\* zip_folder returns ok, leaving archive a at zip_path, having printed msg
ZipReturns(ok, a, msg, failed) ==
    /\ zip' = [zip EXCEPT ![Cur] = a]
    /\ zip_ok' = ok
    /\ zip_msg' = msg
    /\ verified' = IF ok THEN verified \cup {Cur} ELSE verified
    /\ io_error' = (io_error \/ failed)
    /\ pc' = "zipped"
    /\ UNCHANGED <<target, folder, min_count, dry_run, run, subfolders, idx,
                   success_count, fail_count, report, processed, folder0,
                   zip0, probe>>

\* faulty variant of ZipEmpty: an empty archive is written and accepted
ZipEmptyArchives ==
    /\ CallsZipFolder
    /\ count_files_in_folder(Cur, folder[Cur]) = 0
    /\ ZipReturns(TRUE, Written(Cur, folder[Cur], 0), "none", FALSE)

\* lines 78-82: the folder holds no file
ZipEmpty ==
    /\ CallsZipFolder
    /\ count_files_in_folder(Cur, folder[Cur]) = 0
    /\ ZipReturns(FALSE, zip[Cur], "empty", FALSE)

\* lines 103-109: the handler's removal of the archive a, which may fail
\* (the failure is swallowed at line 107)
HandlerLeaves(a) == IF a.exists THEN {NoFile, a} ELSE {a}

\* lines 85-91 raise, lines 101-109 handle: the archive could not be
\* created, or writing failed after k entries
ZipWriteError ==
    /\ CallsZipFolder
    /\ count_files_in_folder(Cur, folder[Cur]) # 0
    /\ \E partial \in {NoFile} \cup
           {Written(Cur, folder[Cur], k) :
              k \in 0..(count_files_in_folder(Cur, folder[Cur]) - 1)} :
         \E left \in HandlerLeaves(partial) :
            ZipReturns(FALSE, left, "error", TRUE)

\* what may be on disk after all entries were written without an exception:
\* the archive, the archive with a corrupt entry, or the archive cut short
OnDisk(n, tree) ==
    LET c == count_files_in_folder(n, tree)
        full == Written(n, tree, c)
    IN  {full}
        \cup {[full EXCEPT !.corrupt = {i}] : i \in 1..c}
        \cup {Written(n, tree, k) : k \in 0..(c - 1)}

\* lines 94-98 (and 101-109 when os.remove at line 97 raises): the archive
\* is written, verify_zip_integrity rejects it, and it is removed
ZipVerifyFail ==
    /\ CallsZipFolder
    /\ count_files_in_folder(Cur, folder[Cur]) # 0
    /\ \E a \in OnDisk(Cur, folder[Cur]), readable \in BOOLEAN :
         /\ ~verify_zip_integrity(a, count_files_in_folder(Cur, folder[Cur]), readable)
         /\ \E left \in HandlerLeaves(a) :
               ZipReturns(FALSE, left, "invalid", TRUE)

\* lines 94-100: the archive is written and verify_zip_integrity accepts it
ZipVerified ==
    /\ CallsZipFolder
    /\ count_files_in_folder(Cur, folder[Cur]) # 0
    /\ \E a \in OnDisk(Cur, folder[Cur]) :
         /\ verify_zip_integrity(a, count_files_in_folder(Cur, folder[Cur]), TRUE)
         /\ ZipReturns(TRUE, a, "none", FALSE)

\* faulty variant of ZipFailed: the failure ends the call
ZipFailedAborts ==
    /\ pc = "zipped"
    /\ ~zip_ok
    /\ fail_count' = fail_count + 1
    /\ pc' = "returned"
    /\ UNCHANGED <<target, folder, zip, min_count, dry_run, run, subfolders,
                   idx, success_count, zip_ok, zip_msg, report, processed,
                   verified, io_error, folder0, zip0, probe>>

\* lines 230-233: zip_folder returned False
ZipFailed ==
    /\ pc = "zipped"
    /\ ~zip_ok
    /\ fail_count' = fail_count + 1
    /\ Continue(IF zip_msg = "empty" THEN "failed_empty" ELSE "failed")
    /\ UNCHANGED <<target, folder, zip, min_count, dry_run, run, subfolders,
                   success_count, zip_ok, zip_msg, verified, io_error,
                   folder0, zip0, probe>>

\* lines 214-221: shutil.rmtree(folder) succeeds
RmtreeOk ==
    /\ pc = "zipped"
    /\ zip_ok
    /\ zip[Cur].exists
    /\ folder' = [folder EXCEPT ![Cur] = NoFolder]
    /\ success_count' = success_count + 1
    /\ Continue("success")
    /\ UNCHANGED <<target, zip, min_count, dry_run, run, subfolders,
                   fail_count, zip_ok, zip_msg, verified, io_error, folder0,
                   zip0, probe>>

IsBelow(p, d) == Len(p) > Len(d) /\ SubSeq(p, 1, Len(d)) = d

\* what shutil.rmtree can leave of a tree when it raises: the folder itself,
\* any of its files, and every directory something is left in
RmtreeLeaves(tree) ==
    {[exists |-> TRUE, dirs |-> ds, files |-> fs] :
       <<ds, fs>> \in {x \in (SUBSET tree.dirs) \X (SUBSET tree.files) :
                        \A d \in tree.dirs \ x[1] :
                           \A p \in x[1] \cup x[2] : ~IsBelow(p, d)}}

\* faulty variant of RmtreeError: the folder is counted as a success
RmtreeErrorCountsSuccess ==
    /\ pc = "zipped"
    /\ zip_ok
    /\ zip[Cur].exists
    /\ \E t \in RmtreeLeaves(folder[Cur]) : folder' = [folder EXCEPT ![Cur] = t]
    /\ success_count' = success_count + 1
    /\ io_error' = TRUE
    /\ Continue("delete_failed")
    /\ UNCHANGED <<target, zip, min_count, dry_run, run, subfolders,
                   fail_count, zip_ok, zip_msg, verified, folder0, zip0,
                   probe>>

\* lines 214-226: shutil.rmtree(folder) raises
RmtreeError ==
    /\ pc = "zipped"
    /\ zip_ok
    /\ zip[Cur].exists
    /\ \E t \in RmtreeLeaves(folder[Cur]) : folder' = [folder EXCEPT ![Cur] = t]
    /\ fail_count' = fail_count + 1
    /\ io_error' = TRUE
    /\ Continue("delete_failed")
    /\ UNCHANGED <<target, zip, min_count, dry_run, run, subfolders,
                   success_count, zip_ok, zip_msg, verified, folder0, zip0,
                   probe>>

\* lines 235-240: the tally is printed
Summary ==
    /\ pc = "loop"
    /\ idx > Len(subfolders)
    /\ pc' = "done"
    /\ UNCHANGED <<target, folder, zip, min_count, dry_run, run, subfolders,
                   idx, success_count, fail_count, zip_ok, zip_msg, report,
                   processed, verified, io_error, folder0, zip0, probe>>

Next ==
    \/ StartNoDirectory
    \/ StartNoSubfolders
    \/ StartBelowMinCount
    \/ StartLoop
    \/ SkipExisting
    \/ DryRunStep
    \/ ZipEmpty
    \/ ZipWriteError
    \/ ZipVerifyFail
    \/ ZipVerified
    \/ ZipFailed
    \/ RmtreeOk
    \/ RmtreeError
    \/ Summary

Spec == Init /\ [][Next]_vars

\* the steps of the loop of lines 185-240
Body ==
    \/ SkipExisting
    \/ DryRunStep
    \/ ZipEmpty
    \/ ZipWriteError
    \/ ZipVerifyFail
    \/ ZipVerified
    \/ ZipFailed
    \/ RmtreeOk
    \/ RmtreeError
    \/ Summary

\* one call of squeez_subfolders, as main() makes it
NextOnce ==
    \/ run = 0 /\ StartNoDirectory
    \/ run = 0 /\ StartNoSubfolders
    \/ run = 0 /\ StartBelowMinCount
    \/ run = 0 /\ StartLoop
    \/ Body

\* the program is one sequential process without blocking calls: once in
\* the loop, a step that can be taken is taken
FairSpec == Init /\ [][NextOnce]_vars /\ WF_vars(Body)

----------------------------------------------------------------------------
(* verify_zip_integrity called on its own, on arbitrary archives *)

EntrySamples == {<<"A", Sep, "f1">>, <<"A", Sep, "d", Sep>>, <<"A", Sep, "d", Sep, "f2">>}

ArchiveSamples ==
    {NoFile} \cup
    UNION {{[exists |-> TRUE, names |-> ns, corrupt |-> c] :
              ns \in [1..l -> EntrySamples], c \in SUBSET (1..l)} : l \in 0..MaxEntries}

InitVerify ==
    /\ target = "dir"
    /\ folder = [n \in Names |-> NoFolder]
    /\ zip = [n \in Names |-> NoFile]
    /\ min_count = 1
    /\ dry_run = FALSE
    /\ pc = "verify"
    /\ run = 0
    /\ subfolders = <<>>
    /\ idx = 1
    /\ success_count = 0
    /\ fail_count = 0
    /\ zip_ok = FALSE
    /\ zip_msg = "none"
    /\ report = NoReport
    /\ processed = <<>>
    /\ verified = {}
    /\ io_error = FALSE
    /\ folder0 = folder
    /\ zip0 = zip
    /\ probe \in [arch : ArchiveSamples, expected : 0..MaxEntries,
                   readable : BOOLEAN, result : {FALSE}, called : {FALSE}]

VerifyCall ==
    /\ pc = "verify"
    /\ ~probe.called
    /\ probe' = [probe EXCEPT
                    !.result = verify_zip_integrity(probe.arch, probe.expected, probe.readable),
                    !.called = TRUE]
    /\ UNCHANGED <<target, folder, zip, min_count, dry_run, pc, run, subfolders,
                   idx, success_count, fail_count, zip_ok, zip_msg, report,
                   processed, verified, io_error, folder0, zip0>>

SpecVerify == InitVerify /\ [][VerifyCall]_vars

----------------------------------------------------------------------------
(* Properties *)

RECURSIVE Slashed(_)
\* the components p, each preceded by a separator
Slashed(p) == IF p = <<>> THEN <<>> ELSE <<Sep, Head(p)>> \o Slashed(Tail(p))

\* the entry names an archive of folder n with content tree must hold
ExpectedNames(n, tree) == {<<n>> \o Slashed(p) : p \in tree.files}

NamesOf(a) == {a.names[i] : i \in 1..Len(a.names)}

FileEntries(a) == {i \in 1..Len(a.names) : a.names[i][Len(a.names[i])] # Sep}

\* archive a is on disk, has no corrupt entry and as many file entries as
\* tree has files
IsValid(a, tree) ==
    /\ a.exists
    /\ a.corrupt = {}
    /\ Cardinality(FileEntries(a)) = Cardinality(tree.files)

Reported(status) == {n \in Names : report[n] \in status}

Listed0 == {n \in Names : folder0[n].exists}

\* C1: after a non-empty subfolder was processed by a non-dry run, either it
\* is on disk unchanged and no archive file exists, or a valid archive exists
\* and the folder is removed or is present with a warning.
C1_ArchiveOrFolder ==
    \A n \in Reported({"success", "delete_failed", "failed"}) :
       \/ folder[n] = folder0[n] /\ ~zip[n].exists
       \/ /\ IsValid(zip[n], folder0[n])
          /\ ~folder[n].exists \/ report[n] = "delete_failed"

\* C2: a subfolder changes on disk only in a step taken after, in the same
\* run, its archive was written and accepted by verify_zip_integrity: the
\* archive then has no corrupt entry and as many file entries as the folder
\* had files.
C2_DeleteOnlyAfterVerify ==
    [][\A n \in Names :
         folder'[n] # folder[n] =>
            n \in verified /\ zip_ok /\ IsValid(zip[n], folder0[n])]_vars

C2_Witness ==
    \E n \in Names : report[n] = "success" /\ ~folder[n].exists /\ n \in verified

\* C3: verify_zip_integrity returns valid exactly when the archive can be
\* read, no entry is corrupt, and the number of entries whose name does not
\* end in '/' equals the expected count.
C3_VerifyExactly ==
    probe.called =>
       probe.result = (/\ probe.arch.exists
                       /\ probe.readable
                       /\ probe.arch.corrupt = {}
                       /\ Cardinality(FileEntries(probe.arch)) = probe.expected)

\* an intact archive whose entries, directory markers included, are as many
\* as expected, and which is rejected
C3_Witness ==
    /\ probe.called
    /\ ~probe.result
    /\ probe.arch.exists /\ probe.readable /\ probe.arch.corrupt = {}
    /\ Len(probe.arch.names) = probe.expected
    /\ Cardinality(FileEntries(probe.arch)) = probe.expected - 1

\* C4: in a dry run the folders and the archives are those the run started with.
C4_DryRunChangesNothing ==
    (dry_run /\ run >= 1) => (folder = folder0 /\ zip = zip0)

C4_Witness ==
    /\ dry_run /\ pc = "done"
    /\ Reported({"simulated"}) # {} /\ Reported({"skipped"}) # {}
    /\ \E n \in Reported({"simulated"}) : folder[n].files # {}

\* C5: in a second non-dry run every subfolder whose archive exists when the
\* run starts is skipped, its archive and the subfolder are left as they were,
\* and every file a folder held when the run started is still in the folder
\* or is an entry of the folder's intact archive.
C5_SecondRunSkips ==
    (run >= 2 /\ ~dry_run) =>
       \A n \in Names :
          /\ zip0[n].exists => zip[n] = zip0[n] /\ folder[n] = folder0[n]
          /\ (zip0[n].exists /\ report[n] # "none") => report[n] = "skipped"
          /\ \A p \in folder0[n].files :
                \/ p \in folder[n].files
                \/ /\ zip[n].exists /\ zip[n].corrupt = {}
                   /\ <<n>> \o Slashed(p) \in NamesOf(zip[n])

\* the second run skips a folder the first run archived but could not delete
C5_Witness ==
    /\ run = 2 /\ ~dry_run /\ pc = "done"
    /\ report["A"] = "skipped" /\ folder["A"].exists
    /\ NamesOf(zip["A"]) = ExpectedNames("A", Flat3)
    /\ Reported({"success"}) # {}

\* C6: when the target has no subfolder, or fewer than min_count, the call
\* returns with the folders and the archives as they were.
C6_BelowThreshold ==
    (run >= 1 /\ (Cardinality(Listed0) = 0 \/ Cardinality(Listed0) < min_count)) =>
       (folder = folder0 /\ zip = zip0 /\ pc = "returned")

C6_Witness ==
    /\ pc = "returned" /\ ~dry_run /\ run = 1
    /\ Cardinality(Listed0) = 1 /\ min_count = 2
    /\ \E n \in Listed0 : folder[n].files # {} /\ ~zip[n].exists

\* C7: once the loop is entered, the tally is reached with every listed
\* subfolder processed, in listing order.
C7_BatchCompletes ==
    (pc = "loop" /\ idx = 1) ~> (pc = "done" /\ processed = subfolders)

\* a batch that completed although its first two folders failed
C7_Witness ==
    /\ pc = "done" /\ processed = subfolders /\ Len(subfolders) = 3
    /\ report[subfolders[1]] = "failed"
    /\ report[subfolders[2]] \in {"failed_empty", "delete_failed"}
    /\ report[subfolders[3]] = "success"

C9_Scenario ==
    /\ run = 1 /\ min_count = 1 /\ ~dry_run /\ ~io_error /\ target = "dir"
    /\ folder0["A"] = Flat3 /\ ~zip0["A"].exists
    /\ folder0["B"].exists /\ folder0["B"].files = {} /\ ~zip0["B"].exists
    /\ folder0["C"].exists /\ zip0["C"].exists

C9_MixedBatch ==
    (C9_Scenario /\ pc = "done") =>
       /\ zip["A"].exists /\ zip["A"].corrupt = {}
       /\ Cardinality(FileEntries(zip["A"])) = 3 /\ Len(zip["A"].names) = 3
       /\ ~folder["A"].exists /\ report["A"] = "success"
       /\ folder["B"] = folder0["B"] /\ ~zip["B"].exists
       /\ report["B"] = "failed_empty"
       /\ folder["C"] = folder0["C"] /\ zip["C"] = zip0["C"]
       /\ report["C"] = "skipped"
       /\ success_count = 1 /\ fail_count = 1
       /\ Cardinality(Reported({"skipped"})) = 1
       /\ \A n \in Names : report[n] # "none"

C9_Witness == C9_Scenario /\ pc = "done"

\* C10: the archive zip_folder accepted holds exactly one entry for each file
\* under the folder, none for a directory, each named by the folder's name
\* followed by the file's path inside the folder.
C10_ArchiveContents ==
    (pc = "zipped" /\ zip_ok) =>
       /\ NamesOf(zip[Cur]) = ExpectedNames(Cur, folder[Cur])
       /\ Len(zip[Cur].names) = Cardinality(folder[Cur].files)
       /\ \A i \in 1..Len(zip[Cur].names) :
             /\ zip[Cur].names[i][1] = Cur
             /\ ~EndsWithSep(zip[Cur].names[i])

\* an accepted archive of a folder with a file in a nested directory
C10_Witness ==
    /\ pc = "zipped" /\ zip_ok
    /\ folder[Cur].dirs # {}
    /\ \E p \in folder[Cur].files : Len(p) > 1

====
